---- MODULE Spec2Model ----
(***************************************************************************)
(* Model of ospd_openvas/notus/metadata.py: NotusMetadataHandler, which    *)
(* checks the checksum of every Notus CSV file, parses it and uploads one  *)
(* 15-field record per advisory into the Redis KB.                         *)
(*                                                                         *)
(* Text is modelled as TLA+ strings, read character by character.  A file  *)
(* is a sequence of lines and a line the sequence of its cells, as the     *)
(* csv module splits it; the text of a line is its cells joined by ",".    *)
(***************************************************************************)
EXTENDS Integers, Sequences, FiniteSets, TLC

(***************************************************************************)
(* Bounds of the model.                                                    *)
(***************************************************************************)
\* files in the metadata directory
MaxFiles == 2
\* calls of update_metadata on one handler
MaxRuns == 2

(***************************************************************************)
(* Strings.                                                                *)
(***************************************************************************)
Char(s, i) == SubSeq(s, i, i)

StartsWith(s, p) == Len(s) >= Len(p) /\ SubSeq(s, 1, Len(p)) = p

Range(q) == {q[i] : i \in 1..Len(q)}

\* sep.join(parts), parts a sequence of strings
RECURSIVE JoinStr(_, _)
JoinStr(sep, parts) ==
    IF parts = <<>> THEN ""
    ELSE IF Len(parts) = 1 THEN parts[1]
    ELSE parts[1] \o sep \o JoinStr(sep, Tail(parts))

\* os.path.basename: what follows the last "/"
RECURSIVE LastSlash(_, _)
LastSlash(s, i) ==
    IF i = 0 THEN 0
    ELSE IF Char(s, i) = "/" THEN i
    ELSE LastSlash(s, i - 1)

Basename(path) == SubSeq(path, LastSlash(path, Len(path)) + 1, Len(path))

(***************************************************************************)
(* Module constants.                                                       *)
(***************************************************************************)
EXPECTED_FIELD_NAMES_LIST ==
    << "OID", "TITLE", "CREATION_DATE", "LAST_MODIFICATION", "SOURCE_PKGS",
       "ADVISORY_ID", "CVSS_BASE_VECTOR", "CVSS_BASE", "ADVISORY_XREF",
       "DESCRIPTION", "INSIGHT", "AFFECTED", "CVE_LIST",
       "BINARY_PACKAGES_FOR_RELEASES", "XREFS" >>

METADATA_DIRECTORY_NAME == "notus_metadata"

\* self.__metadata_relative_path_string
MetadataRelativePath == METADATA_DIRECTORY_NAME \o "/"

(***************************************************************************)
(* The files the metadata directory can hold.                              *)
(***************************************************************************)
\* the text of a line of the file
LineText(line) == JoinStr(",", line)

OidA == "1.3.1"
OidB == "1.3.2"
\* the OID whose key is in RefusedKeys
OidC == "1.3.3"

\* a complete, well-formed row
Row(oid, title) ==
    << oid, title, "2020", "2021", "['p']", "ADV", "AV:N", "5.0", "x.org",
       "desc", "ins", "aff", "['c1','c2']", "['r']", "['u1','u2']" >>

Col(name) ==
    CHOOSE i \in 1..Len(EXPECTED_FIELD_NAMES_LIST) : EXPECTED_FIELD_NAMES_LIST[i] = name

With(row, name, text) == [row EXCEPT ![Col(name)] = text]

RowA == Row(OidA, "tA")
RowA2 == Row(OidA, "tA2")
RowB == Row(OidB, "tB")
RowC == Row(OidC, "tC")
\* rows with an empty or a missing value
RowEmptyTitle == With(RowA, "TITLE", "")
RowShort == SubSeq(RowA, 1, 9)
\* rows with a SOURCE_PKGS that is no list of at least one element
RowSrcEmpty == With(RowA, "SOURCE_PKGS", "[]")
RowSrcName == With(RowA, "SOURCE_PKGS", "pkg")
RowSrcNum == With(RowA, "SOURCE_PKGS", "5")
RowSrcStr == With(Row(OidB, "tStr"), "SOURCE_PKGS", "'p'")
RowSrcOpen == With(RowA, "SOURCE_PKGS", "['p'")
RowSrcOpenNoXrefs == With(RowSrcOpen, "XREFS", "")
\* rows with a CVE_LIST or XREFS that is no list
RowCveOpen == With(RowA, "CVE_LIST", "['c1'")
RowCveStr == With(Row(OidB, "tCve"), "CVE_LIST", "'c1'")
RowXrefsNum == With(RowA, "XREFS", "7")
\* rows with no and with one cross reference
RowXrefsEmpty == With(Row(OidB, "tX0"), "XREFS", "[]")
RowXrefsOne == With(With(Row(OidB, "tX1"), "XREFS", "['u3']"), "ADVISORY_XREF", "y.org")
\* a row with a surplus cell
RowLong == Append(Row(OidB, "tLong"), "more")

LicenseLine == <<"# Copyright (C) Greenbone Networks GmbH">>
BlankLine == <<>>
Header1 ==
    <<"{'VULDETECT':'vd1'", "'SOLUTION':'so1'", "'SOLUTION_TYPE':'st1'", "'QOD_TYPE':'qt1'}">>
Header2 ==
    <<"{'VULDETECT':'vd2'", "'SOLUTION':'so2'", "'SOLUTION_TYPE':'st2'", "'QOD_TYPE':'qt2'}">>
HeaderNoQod == <<"{'VULDETECT':'vd1'", "'SOLUTION':'so1'", "'SOLUTION_TYPE':'st1'}">>
HeaderOpen == <<"{'VULDETECT':'vd1'">>

Columns == EXPECTED_FIELD_NAMES_LIST
ColumnsMissing == SubSeq(Columns, 1, 14)
ColumnsExtra == Append(Columns, "EXTRA")
ColumnsSwapped == [Columns EXCEPT ![1] = "TITLE", ![2] = "OID"]
ColumnsRenamed == [Columns EXCEPT ![2] = "NAME"]

Table(header, columns, rows) == <<LicenseLine, header, columns>> \o rows

\* the contents: id names the content, and with it its digest
Contents ==
    { [id |-> "good1", lines |-> Table(Header1, Columns, <<RowA, RowB>>)],
      [id |-> "good2", lines |-> <<Header2, Columns, RowA2, RowA>>],
      [id |-> "skips",
       lines |-> Table(Header1, Columns,
                       <<RowB, RowEmptyTitle, RowShort, BlankLine, RowSrcEmpty,
                         RowSrcName, RowSrcNum, RowA2>>)],
      [id |-> "odd", lines |-> Table(Header2, Columns,
                       <<RowSrcStr, RowCveStr, RowLong, RowXrefsEmpty, RowXrefsOne>>)],
      [id |-> "refused", lines |-> Table(Header1, Columns, <<RowA, RowC, RowB>>)],
      [id |-> "srcopen", lines |-> Table(Header1, Columns, <<RowA, RowSrcOpen, RowB>>)],
      [id |-> "srcopen2",
       lines |-> Table(Header1, Columns, <<RowA, RowSrcOpenNoXrefs, RowB>>)],
      [id |-> "cveopen", lines |-> Table(Header1, Columns, <<RowA, RowCveOpen, RowB>>)],
      [id |-> "xrefsnum", lines |-> Table(Header1, Columns, <<RowA, RowXrefsNum, RowB>>)],
      [id |-> "colsmissing", lines |-> Table(Header1, ColumnsMissing, <<RowA>>)],
      [id |-> "colsextra", lines |-> Table(Header1, ColumnsExtra, <<RowA>>)],
      [id |-> "colsswapped", lines |-> Table(Header1, ColumnsSwapped, <<RowA>>)],
      [id |-> "colsrenamed", lines |-> Table(Header1, ColumnsRenamed, <<RowA>>)],
      [id |-> "nocolumns", lines |-> <<LicenseLine, Header1>>],
      [id |-> "noheader", lines |-> <<LicenseLine, Columns, RowA>>],
      [id |-> "headertwice",
       lines |-> <<LicenseLine, Header1, Columns, Header2, RowB>>],
      [id |-> "headernoqod", lines |-> Table(HeaderNoQod, Columns, <<RowA>>)],
      [id |-> "headeropen", lines |-> Table(HeaderOpen, Columns, <<RowA>>)] }

(***************************************************************************)
(* ast.literal_eval, on the literals of one nesting level: strings in      *)
(* single quotes, decimal numbers, names, lists, mappings and sets.        *)
(* The text is first parsed (SyntaxError), then converted (ValueError).    *)
(***************************************************************************)
Digits == {"0", "1", "2", "3", "4", "5", "6", "7", "8", "9"}
Punct == {"[", "]", "{", "}", ",", ":"}
Quote == "'"

Tok(t, v) == [t |-> t, v |-> v]

\* index of the closing quote at or after i, 0 when the string never closes
RECURSIVE CloseQuote(_, _)
CloseQuote(s, i) ==
    IF i > Len(s) THEN 0
    ELSE IF Char(s, i) = Quote THEN i
    ELSE CloseQuote(s, i + 1)

\* index of the last character of the word that starts at i
RECURSIVE WordEnd(_, _)
WordEnd(s, i) ==
    IF i + 1 > Len(s) THEN i
    ELSE IF Char(s, i + 1) \in Punct \cup {Quote, " "} THEN i
    ELSE WordEnd(s, i + 1)

AllDigits(w) == \A i \in 1..Len(w) : Char(w, i) \in Digits

WordTok(w) ==
    IF AllDigits(w) THEN Tok("num", w)
    ELSE IF Char(w, 1) \in Digits THEN Tok("bad", w)
    ELSE Tok("name", w)

RECURSIVE LexFrom(_, _)
LexFrom(s, i) ==
    IF i > Len(s) THEN <<>>
    ELSE LET c == Char(s, i) IN
         IF c = " " THEN LexFrom(s, i + 1)
         ELSE IF c \in Punct THEN <<Tok("punct", c)>> \o LexFrom(s, i + 1)
         ELSE IF c = Quote
              THEN LET j == CloseQuote(s, i + 1) IN
                   IF j = 0 THEN <<Tok("bad", "")>>
                   ELSE <<Tok("str", SubSeq(s, i + 1, j - 1))>>
                            \o LexFrom(s, j + 1)
         ELSE LET j == WordEnd(s, i) IN
              <<WordTok(SubSeq(s, i, j))>> \o LexFrom(s, j + 1)

Lex(s) == LexFrom(s, 1)

\* A Python value: type, the text of a str or int, the items of a list or
\* set or the keys of a dict, the values of a dict; exc is the exception
\* raised instead of a value, "" when none.
Val(type, s, items, vals) ==
    [exc |-> "", type |-> type, s |-> s, items |-> items, vals |-> vals]

Raised(e) == [exc |-> e, type |-> "", s |-> "", items |-> <<>>, vals |-> <<>>]

PyStr(s) == Val("str", s, <<>>, <<>>)

IsAtomTok(t) == t.t \in {"str", "num", "name"}

IsPunct(t, c) == t.t = "punct" /\ t.v = c

AtomVal(t) == Val(IF t.t = "num" THEN "int" ELSE t.t, t.v, <<>>, <<>>)

\* atom (, atom)* [,]
IsAtomList(ts) ==
    /\ Len(ts) > 0
    /\ \A i \in 1..Len(ts) :
          IF i % 2 = 1 THEN IsAtomTok(ts[i]) ELSE IsPunct(ts[i], ",")

AtomsOf(ts) == [i \in 1..((Len(ts) + 1) \div 2) |-> AtomVal(ts[2 * i - 1])]

\* atom : atom (, atom : atom)* [,]
IsPairList(ts) ==
    /\ Len(ts) >= 3
    /\ Len(ts) % 4 \in {0, 3}
    /\ \A i \in 1..Len(ts) :
          CASE i % 4 = 1 -> IsAtomTok(ts[i])
            [] i % 4 = 2 -> IsPunct(ts[i], ":")
            [] i % 4 = 3 -> IsAtomTok(ts[i])
            [] OTHER     -> IsPunct(ts[i], ",")

KeysOf(ts) == [i \in 1..((Len(ts) + 1) \div 4) |-> AtomVal(ts[4 * i - 3])]
ValsOf(ts) == [i \in 1..((Len(ts) + 1) \div 4) |-> AtomVal(ts[4 * i - 1])]

\* the syntax tree, or SyntaxError
ParseToks(ts) ==
    LET n == Len(ts)
        inner == SubSeq(ts, 2, n - 1)
    IN  IF n = 0 \/ \E i \in 1..n : ts[i].t = "bad" THEN Raised("SyntaxError")
        ELSE IF n = 1
             THEN IF IsAtomTok(ts[1]) THEN AtomVal(ts[1])
                  ELSE Raised("SyntaxError")
        ELSE IF IsPunct(ts[1], "[") /\ IsPunct(ts[n], "]")
             THEN IF inner = <<>> THEN Val("list", "", <<>>, <<>>)
                  ELSE IF IsAtomList(inner)
                       THEN Val("list", "", AtomsOf(inner), <<>>)
                  ELSE Raised("SyntaxError")
        ELSE IF IsPunct(ts[1], "{") /\ IsPunct(ts[n], "}")
             THEN IF inner = <<>> THEN Val("dict", "", <<>>, <<>>)
                  ELSE IF IsPairList(inner)
                       THEN Val("dict", "", KeysOf(inner), ValsOf(inner))
                  ELSE IF IsAtomList(inner)
                       THEN Val("set", "", AtomsOf(inner), <<>>)
                  ELSE Raised("SyntaxError")
        ELSE Raised("SyntaxError")

HasName(v) ==
    \/ v.type = "name"
    \/ \E i \in 1..Len(v.items) : v.items[i].type = "name"
    \/ \E i \in 1..Len(v.vals) : v.vals[i].type = "name"

\* the value of a syntax tree: a name is no literal
Convert(tree) ==
    IF tree.exc # "" THEN tree
    ELSE IF HasName(tree) THEN Raised("ValueError")
    ELSE tree

\* the texts update_metadata hands to ast.literal_eval: the cells of the
\* files the directory can hold, and their header lines
LiteralTexts ==
    UNION { UNION {Range(c.lines[i]) : i \in 1..Len(c.lines)}
              \cup {LineText(c.lines[i]) :
                      i \in {j \in 1..Len(c.lines) : StartsWith(LineText(c.lines[j]), "{")}}
            : c \in Contents }

\* their values, evaluated once
EvaluatedLiterals == [s \in LiteralTexts |-> Convert(ParseToks(Lex(s)))]

literal_eval(s) ==
    IF s \in LiteralTexts THEN EvaluatedLiterals[s] ELSE Convert(ParseToks(Lex(s)))

(***************************************************************************)
(* The operations of Python the handler applies to evaluated literals.     *)
(***************************************************************************)
\* len(v)
PyLen(v) ==
    IF v.type \in {"list", "set", "dict"} THEN [exc |-> "", n |-> Len(v.items)]
    ELSE IF v.type = "str" THEN [exc |-> "", n |-> Len(v.s)]
    ELSE [exc |-> "TypeError", n |-> 0]

\* iter(v): the items of a list, the keys of a dict, the characters of a str
PyIter(v) ==
    IF v.type \in {"list", "set", "dict"} THEN [exc |-> "", items |-> v.items]
    ELSE IF v.type = "str"
         THEN [exc |-> "", items |-> [i \in 1..Len(v.s) |-> PyStr(Char(v.s, i))]]
    ELSE [exc |-> "TypeError", items |-> <<>>]

JoinIterated(sep, it) ==
    IF it.exc # "" THEN [exc |-> it.exc, s |-> ""]
    ELSE IF \E i \in 1..Len(it.items) : it.items[i].type # "str"
         THEN [exc |-> "TypeError", s |-> ""]
    ELSE [exc |-> "",
          s |-> JoinStr(sep, [i \in 1..Len(it.items) |-> it.items[i].s])]

\* sep.join(v): every item has to be a str
PyJoin(sep, v) == JoinIterated(sep, PyIter(v))

\* "{}".format(v) of a str or an int
Format(v) == v.s

\* v[key]
Subscript(v, key) ==
    IF v.type # "dict" THEN Raised("TypeError")
    ELSE LET hits == {i \in 1..Len(v.items) :
                         v.items[i].type = "str" /\ v.items[i].s = key}
         IN  IF hits = {} THEN Raised("KeyError")
             ELSE v.vals[CHOOSE i \in hits : \A j \in hits : j <= i]

(***************************************************************************)
(* csv.DictReader: a row becomes a dict from the field names to its cells; *)
(* missing cells are None, surplus cells are a list under the key None.    *)
(* A dict value is [none, s, rest]: None, a string, or the surplus list.   *)
(***************************************************************************)
RestKey == "<None>"

Cell(s) == [none |-> FALSE, s |-> s, rest |-> <<>>]
NoneCell == [none |-> TRUE, s |-> "", rest |-> <<>>]
RestCell(cells) == [none |-> FALSE, s |-> "", rest |-> cells]

DictRow(fieldnames, row) ==
    LET lf == Len(fieldnames)
        lr == Len(row)
        named == [i \in 1..lf |-> IF i <= lr THEN Cell(row[i]) ELSE NoneCell]
    IN  IF lf < lr
        THEN [keys |-> Append(fieldnames, RestKey),
              vals |-> Append(named, RestCell(SubSeq(row, lf + 1, lr)))]
        ELSE [keys |-> fieldnames, vals |-> named]

\* advisory_dict[key], as a string
Get(advisory_dict, key) ==
    LET i == CHOOSE j \in 1..Len(advisory_dict.keys) : advisory_dict.keys[j] = key
    IN  advisory_dict.vals[i].s

\* bool(value)
Truthy(value) == ~value.none /\ (value.s # "" \/ value.rest # <<>>)

(***************************************************************************)
(* NotusMetadataHandler: the pure methods.  A result carries exc, the      *)
(* exception that leaves the method, "" when it returns.                   *)
(***************************************************************************)
\* as _check_field_names_lsc, but the names compared as a set
CheckFieldNamesAsSet(field_names_list) ==
    /\ ~field_names_list.none
    /\ Range(EXPECTED_FIELD_NAMES_LIST) = Range(field_names_list.names)

\* as _check_field_names_lsc, but the names compared pairwise as far as the
\* shorter list goes
CheckFieldNamesPairwise(field_names_list) ==
    /\ ~field_names_list.none
    /\ \A i \in 1..Len(EXPECTED_FIELD_NAMES_LIST) :
          i <= Len(field_names_list.names)
             => EXPECTED_FIELD_NAMES_LIST[i] = field_names_list.names[i]

_check_field_names_lsc(field_names_list) ==
    /\ ~field_names_list.none
    /\ EXPECTED_FIELD_NAMES_LIST = field_names_list.names

\* lines 179-184, v the evaluated SOURCE_PKGS: "empty" (return False),
\* "caught" (ValueError or TypeError: return False), "pass", or the
\* exception that is not caught
SourcePkgsCheck(v) ==
    IF v.exc = "ValueError" THEN "caught"
    ELSE IF v.exc # "" THEN v.exc
    ELSE IF PyLen(v).exc = "TypeError" THEN "caught"
    ELSE IF PyLen(v).n = 0 THEN "empty"
    ELSE "pass"

CheckResult(exc, ok) == [exc |-> exc, ok |-> ok]

RECURSIVE CheckAdvisoryFrom(_, _)
\* the decision on the item (key, value), the i-th of the dict
CheckItem(advisory_dict, i, key, value, source_pkgs) ==
    IF ~Truthy(value) THEN CheckResult("", FALSE)
    ELSE IF key # "SOURCE_PKGS" \/ source_pkgs = "pass"
         THEN CheckAdvisoryFrom(advisory_dict, i + 1)
    ELSE IF source_pkgs \in {"empty", "caught"} THEN CheckResult("", FALSE)
    ELSE CheckResult(source_pkgs, FALSE)

CheckAdvisoryFrom(advisory_dict, i) ==
    IF i > Len(advisory_dict.keys) THEN CheckResult("", TRUE)
    ELSE CheckItem(advisory_dict, i, advisory_dict.keys[i], advisory_dict.vals[i],
                   IF advisory_dict.keys[i] = "SOURCE_PKGS"
                      /\ Truthy(advisory_dict.vals[i])
                   THEN SourcePkgsCheck(literal_eval(advisory_dict.vals[i].s))
                   ELSE "pass")

_check_advisory_dict(advisory_dict) == CheckAdvisoryFrom(advisory_dict, 1)

\* as FormattedList, but the advisory's own link is appended after the others
FormattedListOwnLast(advisory_xref_string, it) ==
    [i \in 1..Len(it.items) |-> "URL:" \o Format(it.items[i])]
        \o <<"URL:" \o advisory_xref_string>>

\* lines 200-206, it the iteration of xrefs_list
FormattedList(advisory_xref_string, it) ==
    <<"URL:" \o advisory_xref_string>>
        \o [i \in 1..Len(it.items) |-> "URL:" \o Format(it.items[i])]

FormatIterated(advisory_xref_string, it) ==
    IF it.exc # "" THEN [exc |-> it.exc, s |-> ""]
    ELSE [exc |-> "", s |-> JoinStr(", ", FormattedList(advisory_xref_string, it))]

\* xrefs_list is the evaluated XREFS literal
_format_xrefs(advisory_xref_string, xrefs_list) ==
    FormatIterated(advisory_xref_string, PyIter(xrefs_list))

\* the first of the lookups that raised, "" if none did
RECURSIVE FirstExc(_)
FirstExc(lookups) ==
    IF lookups = <<>> THEN ""
    ELSE IF Head(lookups).exc # "" THEN Head(lookups).exc
    ELSE FirstExc(Tail(lookups))

\* as TagsFormat, but with the values of solution and solution_type exchanged
TagsFormatExchanged(advisory_dict, vuldetect, solution, solution_type, qod_type) ==
    "cvss_base_vector=" \o Get(advisory_dict, "CVSS_BASE_VECTOR")
        \o "|last_modification=" \o Get(advisory_dict, "LAST_MODIFICATION")
        \o "|creation_date=" \o Get(advisory_dict, "CREATION_DATE")
        \o "|summary=" \o Get(advisory_dict, "DESCRIPTION")
        \o "|vuldetect=" \o Format(vuldetect)
        \o "|insight=" \o Get(advisory_dict, "INSIGHT")
        \o "|affected=" \o Get(advisory_dict, "AFFECTED")
        \o "|solution=" \o Format(solution_type)
        \o "|solution_type=" \o Format(solution)
        \o "|qod_type=" \o Format(qod_type)

\* lines 310-327: the format string, filled
TagsFormat(advisory_dict, vuldetect, solution, solution_type, qod_type) ==
    "cvss_base_vector=" \o Get(advisory_dict, "CVSS_BASE_VECTOR")
        \o "|last_modification=" \o Get(advisory_dict, "LAST_MODIFICATION")
        \o "|creation_date=" \o Get(advisory_dict, "CREATION_DATE")
        \o "|summary=" \o Get(advisory_dict, "DESCRIPTION")
        \o "|vuldetect=" \o Format(vuldetect)
        \o "|insight=" \o Get(advisory_dict, "INSIGHT")
        \o "|affected=" \o Get(advisory_dict, "AFFECTED")
        \o "|solution=" \o Format(solution)
        \o "|solution_type=" \o Format(solution_type)
        \o "|qod_type=" \o Format(qod_type)

TagsOf(advisory_dict, lookups) ==
    IF FirstExc(lookups) # "" THEN [exc |-> FirstExc(lookups), s |-> ""]
    ELSE [exc |-> "",
          s |-> TagsFormat(advisory_dict, lookups[1], lookups[2], lookups[3],
                           lookups[4])]

\* lines 309-328: the tag string; the arguments are evaluated left to right
TagsString(advisory_dict, general_metadata_dict) ==
    TagsOf(advisory_dict,
           << Subscript(general_metadata_dict, "VULDETECT"),
              Subscript(general_metadata_dict, "SOLUTION"),
              Subscript(general_metadata_dict, "SOLUTION_TYPE"),
              Subscript(general_metadata_dict, "QOD_TYPE") >>)

JoinEvaluated(v) == IF v.exc # "" THEN [exc |-> v.exc, s |-> ""] ELSE PyJoin(", ", v)

\* lines 329-332: ", ".join(ast.literal_eval(advisory_dict["CVE_LIST"]))
CveString(advisory_dict) == JoinEvaluated(literal_eval(Get(advisory_dict, "CVE_LIST")))

FormatEvaluated(advisory_xref_string, v) ==
    IF v.exc # "" THEN [exc |-> v.exc, s |-> ""]
    ELSE _format_xrefs(advisory_xref_string, v)

\* lines 335-341: the cross-reference string
XrefsString(advisory_dict) ==
    FormatEvaluated(Get(advisory_dict, "ADVISORY_XREF"),
                    literal_eval(Get(advisory_dict, "XREFS")))

\* as MetadataList, but without the empty entry of the BIDs
MetadataListNoBids(csv_file_name, advisory_dict, tags_string, cve_string, xrefs_string) ==
    << MetadataRelativePath \o Basename(csv_file_name),
       "", "", "", "", "", "",
       tags_string, cve_string, xrefs_string,
       "3", "0", "Notus_LSC_Metadata",
       Get(advisory_dict, "TITLE") >>

\* lines 289-349: the 15 entries, in the order they are appended
MetadataList(csv_file_name, advisory_dict, tags_string, cve_string, xrefs_string) ==
    << MetadataRelativePath \o Basename(csv_file_name),
       "", "", "", "", "", "",
       tags_string, cve_string, "", xrefs_string,
       "3", "0", "Notus_LSC_Metadata",
       Get(advisory_dict, "TITLE") >>

Assemble(csv_file_name, advisory_dict, tags, cves, xrefs) ==
    IF tags.exc # "" THEN [exc |-> tags.exc, at |-> "tags", vt |-> <<>>]
    ELSE IF cves.exc # "" THEN [exc |-> cves.exc, at |-> "CVE_LIST", vt |-> <<>>]
    ELSE IF xrefs.exc # "" THEN [exc |-> xrefs.exc, at |-> "XREFS", vt |-> <<>>]
    ELSE [exc |-> "", at |-> "",
          vt |-> MetadataList(csv_file_name, advisory_dict, tags.s, cves.s, xrefs.s)]

\* lines 289-349: advisory_metadata_list, or the exception raised on the way
\* and the field whose evaluation raised it
AdvisoryMetadataList(csv_file_name, advisory_dict, general_metadata_dict) ==
    Assemble(csv_file_name, advisory_dict,
             TagsString(advisory_dict, general_metadata_dict),
             CveString(advisory_dict), XrefsString(advisory_dict))

\* line 353
KbKey(advisory_dict) == "nvt:" \o Get(advisory_dict, "OID")

(***************************************************************************)
(* The Redis KB: a map from keys to lists of strings.  It holds the trust  *)
(* store ("sha256sums:" + path) and the NVT cache ("nvt:" + OID).          *)
(***************************************************************************)
\* the number of fields of a VT in the cache
VtFieldCount == 15

\* Keys for which the cache reports the field-count violation whatever the
\* record is: the handler always hands over 15 fields, so its except branch
\* is taken only when the cache is made to report the violation.
RefusedKeys == {"nvt:1.3.3"}

\* db.OpenvasDB.get_single_item: the first item under the key, or None
get_single_item(kb, name) ==
    IF name \in DOMAIN kb /\ kb[name] # <<>> THEN Cell(kb[name][1]) ELSE NoneCell

\* nvticache.NVTICache.add_vt_to_cache: replaces the list under vt_id
add_vt_to_cache(kb, vt_id, vt) ==
    IF Len(vt) # VtFieldCount \/ vt_id \in RefusedKeys
    THEN [exc |-> "OspdOpenvasError", kb |-> kb]
    ELSE [exc |-> "",
          kb |-> [k \in DOMAIN kb \cup {vt_id} |-> IF k = vt_id THEN vt ELSE kb[k]]]

\* as CacheWrite, but the record is pushed onto the list under the key
CacheWriteAppend(kb, kb_key_string, advisory_metadata_list) ==
    [exc |-> add_vt_to_cache(kb, kb_key_string, advisory_metadata_list).exc,
     kb |-> IF add_vt_to_cache(kb, kb_key_string, advisory_metadata_list).exc # ""
            THEN kb
            ELSE [k \in DOMAIN kb \cup {kb_key_string} |->
                     IF k # kb_key_string THEN kb[k]
                     ELSE IF k \in DOMAIN kb THEN kb[k] \o advisory_metadata_list
                     ELSE advisory_metadata_list]]

\* as CacheWrite, but a key the cache holds already is left as it is
CacheWriteIfAbsent(kb, kb_key_string, advisory_metadata_list) ==
    IF kb_key_string \in DOMAIN kb
    THEN [exc |-> add_vt_to_cache(kb, kb_key_string, advisory_metadata_list).exc,
          kb |-> kb]
    ELSE add_vt_to_cache(kb, kb_key_string, advisory_metadata_list)

\* lines 354-357: the call that writes the record
CacheWrite(kb, kb_key_string, advisory_metadata_list) ==
    add_vt_to_cache(kb, kb_key_string, advisory_metadata_list)

\* sha256 of the bytes of the file: a digest fixed with the content
Sha256Hex(file) == file.sha

TrustKey(file) == "sha256sums:" \o file.path

\* as ChecksumsEqual, but a file without a digest in the trust store passes
ChecksumsEqualOrAbsent(file_calculated_checksum_string, file_downloaded_checksum_string) ==
    \/ file_downloaded_checksum_string.none
    \/ file_calculated_checksum_string = file_downloaded_checksum_string.s

\* lines 237-240: the comparison; None equals no digest
ChecksumsEqual(file_calculated_checksum_string, file_downloaded_checksum_string) ==
    /\ ~file_downloaded_checksum_string.none
    /\ file_calculated_checksum_string = file_downloaded_checksum_string.s

\* as is_checksum_correct, but the digests are compared whatever the setting
ChecksumAlwaysCompared(no_signature_check, kb, file) ==
    ChecksumsEqual(Sha256Hex(file), get_single_item(kb, TrustKey(file)))

\* lines 208-243
is_checksum_correct(no_signature_check, kb, file) ==
    IF ~no_signature_check
    THEN ChecksumsEqual(Sha256Hex(file), get_single_item(kb, TrustKey(file)))
    ELSE TRUE

(***************************************************************************)
(* The metadata directory and the trust store.                             *)
(***************************************************************************)
\* what the trust store holds for a file: its digest, another one, nothing
Entries ==
    {[content |-> c, trust |-> "same"] : c \in Contents}
        \cup {[content |-> c, trust |-> t] :
                c \in {c \in Contents : c.id = "good1"}, t \in {"other", "none"}}

MetadataPath == "/feed/plugins/notus_metadata/"
FileNames == <<"a.csv", "b.csv", "c.csv", "d.csv">>

FileOf(e, i) ==
    [path |-> MetadataPath \o FileNames[i],
     sha |-> "sha-" \o e.content.id,
     lines |-> e.content.lines]

TrustStore(es) ==
    LET listed == {i \in 1..Len(es) : es[i].trust # "none"}
    IN  [k \in {TrustKey(FileOf(es[i], i)) : i \in listed} |->
            LET i == CHOOSE j \in listed : TrustKey(FileOf(es[j], j)) = k
            IN  <<IF es[i].trust = "same" THEN Sha256Hex(FileOf(es[i], i))
                  ELSE "sha-stale">>]

(***************************************************************************)
(* The handler as a state machine.                                         *)
(***************************************************************************)
VARIABLES
    reachable,            \* the environment: the Redis KB accepts connections
    noSignatureCheck,     \* self.__no_signature_check
    files,                \* self.__csv_abs_filepaths_list, with the files on disk
    kb,                   \* the Redis KB
    pc,                   \* where the handler and update_metadata stand
    runs,                 \* calls of update_metadata so far
    fileIdx,              \* index of csv_abs_path in the list
    linePos,              \* index of the next unread line of csv_file
    general_metadata_dict,
    fieldnames,           \* reader.fieldnames
    exc,                  \* the exception that left __init__ or update_metadata, "" if none
    excAt,                \* the field whose evaluation raised it
    stage,                \* history: the stage each file has reached in this run
    calls,                \* history: the calls of add_vt_to_cache
    kbEnd,                \* history: the KB at the end of each run
    trustReads            \* history: the reads of the trust store per file in this run

vars == << reachable, noSignatureCheck, files, kb, pc, runs, fileIdx, linePos,
           general_metadata_dict, fieldnames, exc, excAt, stage, calls, kbEnd,
           trustReads >>

EmptyDict == Val("dict", "", <<>>, <<>>)
NoFieldNames == [none |-> TRUE, names |-> <<>>]

\* db.OpenvasDB.create_context: leaves with SystemExit when the KB cannot
\* be reached
create_context(kb_reachable) == IF kb_reachable THEN "" ELSE "SystemExit"

\* as ConnectKb, but the failure is only logged
ConnectKbLogOnly(connect_exc) == ""

\* lines 86-93: the exception __init__ leaves with, "" if it returns
ConnectKb(connect_exc) ==
    IF connect_exc = "SystemExit" THEN "Exception" ELSE connect_exc

\* the directory, the settings and the KB before the handler is constructed
Init ==
    /\ reachable \in BOOLEAN
    /\ noSignatureCheck \in BOOLEAN
    /\ \E n \in 0..MaxFiles : \E es \in [1..n -> Entries] :
          /\ files = [i \in 1..n |-> FileOf(es[i], i)]
          /\ kb = TrustStore(es)
    /\ pc = "new"
    /\ runs = 0
    /\ fileIdx = 0
    /\ linePos = 0
    /\ general_metadata_dict = EmptyDict
    /\ fieldnames = NoFieldNames
    /\ exc = ""
    /\ excAt = ""
    /\ stage = [i \in 1..Len(files) |-> "Discovered"]
    /\ calls = <<>>
    /\ kbEnd = <<>>
    /\ trustReads = [i \in 1..Len(files) |-> 0]

\* the for loop of line 254 takes the file after file i, or ends
AfterFile(i) == IF i < Len(files) THEN "checksum" ELSE "returned"

Ends(pcNext) == pcNext \in {"returned", "raised"}

\* lines 65-93: NotusMetadataHandler() returns the handler or raises
Construct ==
    /\ pc = "new"
    /\ exc' = ConnectKb(create_context(reachable))
    /\ pc' = IF exc' = "" THEN "idle" ELSE "failed"
    /\ UNCHANGED << trustReads, reachable, noSignatureCheck, files, kb, runs, fileIdx, linePos,
                    general_metadata_dict, fieldnames, excAt, stage, calls, kbEnd >>

\* update_metadata is called on the handler
Call ==
    /\ pc \in {"idle", "returned", "raised"}
    /\ runs < MaxRuns
    /\ runs' = runs + 1
    /\ pc' = AfterFile(0)
    /\ fileIdx' = 1
    /\ exc' = ""
    /\ excAt' = ""
    /\ stage' = [i \in 1..Len(files) |-> "Discovered"]
    /\ kbEnd' = IF Ends(pc') THEN Append(kbEnd, kb) ELSE kbEnd
    /\ trustReads' = [i \in 1..Len(files) |-> 0]
    /\ UNCHANGED << reachable, noSignatureCheck, files, kb, linePos, general_metadata_dict,
                    fieldnames, calls >>

\* lines 254-262: the checksum check, then the file is opened
CheckChecksum ==
    /\ pc = "checksum"
    /\ IF is_checksum_correct(noSignatureCheck, kb, files[fileIdx])
       THEN /\ stage' = [stage EXCEPT ![fileIdx] = "ChecksumVerified"]
            /\ pc' = "header"
            /\ linePos' = 1
            /\ fileIdx' = fileIdx
       ELSE /\ stage' = [stage EXCEPT ![fileIdx] = "Rejected"]
            /\ pc' = AfterFile(fileIdx)
            /\ linePos' = linePos
            /\ fileIdx' = fileIdx + 1
    /\ kbEnd' = IF Ends(pc') THEN Append(kbEnd, kb) ELSE kbEnd
    \* lines 220 and 232: get_single_item is called unless the check is disabled
    /\ trustReads' = [trustReads EXCEPT ![fileIdx] = @ + IF noSignatureCheck THEN 0 ELSE 1]
    /\ UNCHANGED << reachable, noSignatureCheck, files, kb, runs, general_metadata_dict,
                    fieldnames, exc, excAt, calls >>

\* as HeaderLine, but the scan goes on after a line that starts with "{":
\* the index of the last such line
RECURSIVE HeaderLineLast(_, _)
HeaderLineLast(lines, i) ==
    IF i > Len(lines) THEN 0
    ELSE IF HeaderLineLast(lines, i + 1) # 0 THEN HeaderLineLast(lines, i + 1)
    ELSE IF StartsWith(LineText(lines[i]), "{") THEN i
    ELSE 0

\* index of the first line at or after i that starts with "{", 0 if none
RECURSIVE HeaderLine(_, _)
HeaderLine(lines, i) ==
    IF i > Len(lines) THEN 0
    ELSE IF StartsWith(LineText(lines[i]), "{") THEN i
    ELSE HeaderLine(lines, i + 1)

\* as HeaderScanned, but without the dict() of line 265: a file without a
\* header keeps the header of the file before it
HeaderScannedNoReset(h, v) ==
    /\ general_metadata_dict' = IF h = 0 \/ v.exc # "" THEN general_metadata_dict ELSE v
    /\ linePos' = IF h = 0 THEN Len(files[fileIdx].lines) + 1 ELSE h + 1
    /\ pc' = IF h # 0 /\ v.exc # "" THEN "raised" ELSE "fieldnames"
    /\ exc' = IF h # 0 THEN v.exc ELSE exc
    /\ excAt' = IF h # 0 /\ v.exc # "" THEN "header" ELSE excAt

\* lines 265-269, h the index of the header line and v its value
HeaderScanned(h, v) ==
    /\ general_metadata_dict' = IF h = 0 \/ v.exc # "" THEN EmptyDict ELSE v
    /\ linePos' = IF h = 0 THEN Len(files[fileIdx].lines) + 1 ELSE h + 1
    /\ pc' = IF h # 0 /\ v.exc # "" THEN "raised" ELSE "fieldnames"
    /\ exc' = IF h # 0 THEN v.exc ELSE exc
    /\ excAt' = IF h # 0 /\ v.exc # "" THEN "header" ELSE excAt

HeaderAt(lines, h) ==
    HeaderScanned(h, IF h = 0 THEN EmptyDict ELSE literal_eval(LineText(lines[h])))

\* lines 265-269: the lines up to the header are read, the header evaluated
ScanHeader ==
    /\ pc = "header"
    /\ HeaderAt(files[fileIdx].lines, HeaderLine(files[fileIdx].lines, linePos))
    /\ kbEnd' = IF Ends(pc') THEN Append(kbEnd, kb) ELSE kbEnd
    /\ UNCHANGED << trustReads, reachable, noSignatureCheck, files, kb, runs, fileIdx, fieldnames,
                    stage, calls >>

\* lines 271-276: the next line is the column row, and it is checked
ReadFieldNames ==
    /\ pc = "fieldnames"
    /\ LET lines == files[fileIdx].lines
       IN  IF linePos > Len(lines)
           THEN /\ fieldnames' = NoFieldNames
                /\ linePos' = linePos
           ELSE /\ fieldnames' = [none |-> FALSE, names |-> lines[linePos]]
                /\ linePos' = linePos + 1
    /\ IF _check_field_names_lsc(fieldnames')
       THEN /\ stage' = [stage EXCEPT ![fileIdx] = "SchemaVerified"]
            /\ pc' = "rows"
            /\ fileIdx' = fileIdx
       ELSE /\ stage' = [stage EXCEPT ![fileIdx] = "Rejected"]
            /\ pc' = AfterFile(fileIdx)
            /\ fileIdx' = fileIdx + 1
    /\ kbEnd' = IF Ends(pc') THEN Append(kbEnd, kb) ELSE kbEnd
    /\ UNCHANGED << trustReads, reachable, noSignatureCheck, files, kb, runs, general_metadata_dict,
                    exc, excAt, calls >>

\* DictReader skips blank rows: index of the next row at or after i, 0 if none
RECURSIVE NextRow(_, _)
NextRow(lines, i) ==
    IF i > Len(lines) THEN 0
    ELSE IF lines[i] # <<>> THEN i
    ELSE NextRow(lines, i + 1)

\* line 278, the reader is exhausted: the file is done
EndOfRows ==
    /\ pc = "rows"
    /\ NextRow(files[fileIdx].lines, linePos) = 0
    /\ stage' = [stage EXCEPT ![fileIdx] = "Done"]
    /\ pc' = AfterFile(fileIdx)
    /\ fileIdx' = fileIdx + 1
    /\ linePos' = Len(files[fileIdx].lines) + 1
    /\ kbEnd' = IF Ends(pc') THEN Append(kbEnd, kb) ELSE kbEnd
    /\ UNCHANGED << trustReads, reachable, noSignatureCheck, files, kb, runs, general_metadata_dict,
                    fieldnames, exc, excAt, calls >>

Outcome(do, e, at, key, vt, store) ==
    [do |-> do, exc |-> e, at |-> at, key |-> key, vt |-> vt, kb |-> store]

\* lines 351-361: the record is written, or the cache refuses it
Written(kb_key_string, advisory_metadata_list, store, written) ==
    IF written.exc # ""
    THEN Outcome("break", "", "", kb_key_string, advisory_metadata_list, store)
    ELSE Outcome("write", "", "", kb_key_string, advisory_metadata_list, written.kb)

\* as Decide, but without the continue of line 283 for a row that fails the
\* row check
DecideWithoutContinue(advisory_dict, is_correct, record, store) ==
    IF is_correct.exc # ""
    THEN Outcome("raise", is_correct.exc, "SOURCE_PKGS", "", <<>>, store)
    ELSE IF record.exc # ""
    THEN Outcome("raise", record.exc, record.at, "", <<>>, store)
    ELSE Written(KbKey(advisory_dict), record.vt, store,
                 CacheWrite(store, KbKey(advisory_dict), record.vt))

Decide(advisory_dict, is_correct, record, store) ==
    IF is_correct.exc # ""
    THEN Outcome("raise", is_correct.exc, "SOURCE_PKGS", "", <<>>, store)
    ELSE IF ~is_correct.ok THEN Outcome("skip", "", "", "", <<>>, store)
    ELSE IF record.exc # ""
    THEN Outcome("raise", record.exc, record.at, "", <<>>, store)
    ELSE Written(KbKey(advisory_dict), record.vt, store,
                 CacheWrite(store, KbKey(advisory_dict), record.vt))

Transform(csv_file_name, advisory_dict, header, store) ==
    Decide(advisory_dict, _check_advisory_dict(advisory_dict),
           AdvisoryMetadataList(csv_file_name, advisory_dict, header), store)

\* what one pass of the loop body of lines 278-361 does with the row at r:
\* "skip" (continue), "raise", "write", "break"
RowOutcome(file, r, names, header, store) ==
    Transform(file.path, DictRow(names, file.lines[r]), header, store)

\* as LoopAfterRow, but with continue in place of the break of line 361
LoopAfterRowContinue(do, i, last) ==
    CASE do = "raise" -> [pc |-> "raised", fileIdx |-> i]
      [] OTHER -> [pc |-> "rows", fileIdx |-> i]

\* where the loops stand after a row: continue takes the next row, the
\* break of line 361 the next file, an exception leaves update_metadata
LoopAfterRow(do, i, last) ==
    CASE do = "raise" -> [pc |-> "raised", fileIdx |-> i]
      [] do = "break" -> [pc |-> IF i < last THEN "checksum" ELSE "returned",
                          fileIdx |-> i + 1]
      [] OTHER -> [pc |-> "rows", fileIdx |-> i]

\* the effect of the outcome of the row at r
RowDone(r, out) ==
    /\ linePos' = r + 1
    /\ kb' = out.kb
    /\ calls' = IF out.do \in {"write", "break"}
                THEN Append(calls, [run |-> runs, file |-> fileIdx, line |-> r,
                                    key |-> out.key, vt |-> out.vt,
                                    ok |-> out.do = "write"])
                ELSE calls
    /\ exc' = out.exc
    /\ excAt' = out.at
    /\ pc' = LoopAfterRow(out.do, fileIdx, Len(files)).pc
    /\ fileIdx' = LoopAfterRow(out.do, fileIdx, Len(files)).fileIdx
    /\ stage' = [stage EXCEPT ![fileIdx] =
                    IF fileIdx' # fileIdx THEN "Done" ELSE "RowProcessing"]

RowAt(r) ==
    RowDone(r, RowOutcome(files[fileIdx], r, fieldnames.names,
                          general_metadata_dict, kb))

\* lines 278-361: one row is checked, transformed and written
ProcessRow ==
    /\ pc = "rows"
    /\ NextRow(files[fileIdx].lines, linePos) # 0
    /\ RowAt(NextRow(files[fileIdx].lines, linePos))
    /\ kbEnd' = IF Ends(pc') THEN Append(kbEnd, kb') ELSE kbEnd
    /\ UNCHANGED << trustReads, reachable, noSignatureCheck, files, runs, general_metadata_dict, fieldnames >>

Next ==
    \/ Construct
    \/ Call
    \/ CheckChecksum
    \/ ScanHeader
    \/ ReadFieldNames
    \/ ProcessRow
    \/ EndOfRows

Spec == Init /\ [][Next]_vars

\* update_metadata runs to its end once it is called
FairSpec == Spec /\ WF_vars(CheckChecksum \/ ScanHeader \/ ReadFieldNames
                             \/ ProcessRow \/ EndOfRows)

(***************************************************************************)
(* Properties.                                                             *)
(***************************************************************************)
NvtKeys(store) == {k \in DOMAIN store : StartsWith(k, "nvt:")}

\* the file and the row a call of add_vt_to_cache was made for
CallFile(c) == files[c.file]
CallRow(c) == files[c.file].lines[c.line]

\* the trust store holds the digest of the file
Trusted(file) ==
    /\ TrustKey(file) \in DOMAIN kb
    /\ kb[TrustKey(file)] = <<file.sha>>

\* the row update_metadata is about to take
AtRow == pc = "rows" /\ NextRow(files[fileIdx].lines, linePos) # 0
CurrentRow == files[fileIdx].lines[NextRow(files[fileIdx].lines, linePos)]

\* C1: with signature verification enabled, add_vt_to_cache is never called
\* for a row of a file whose digest differs from the digest the trust store
\* holds for its path, or for which the trust store holds none.
C1_NoWriteForUntrustedFile ==
    ~noSignatureCheck => \A i \in 1..Len(calls) : Trusted(CallFile(calls[i]))

\* a run has rejected a file whose digest differs from the stored one and a
\* file without a stored digest, and has called the cache for neither
C1_Witness ==
    /\ ~noSignatureCheck
    /\ pc = "returned"
    /\ \E i, j \in 1..Len(files) :
          /\ TrustKey(files[i]) \in DOMAIN kb
          /\ kb[TrustKey(files[i])] # <<files[i].sha>>
          /\ TrustKey(files[j]) \notin DOMAIN kb
          /\ stage[i] = "Rejected"
          /\ stage[j] = "Rejected"

\* C2: update_metadata never raises because of a row: a malformed
\* SOURCE_PKGS, CVE_LIST or XREFS never ends the run with an exception.
C2_RowErrorsNeverRaise ==
    ~(pc = "raised" /\ excAt \in {"SOURCE_PKGS", "CVE_LIST", "XREFS"})

\* reader.fieldnames of a file, h the index of its first line that starts
\* with "{": the line after it, None when there is no such line
ColumnRowAfter(file, h) ==
    IF h = 0 \/ h >= Len(file.lines) THEN NoFieldNames
    ELSE [none |-> FALSE, names |-> file.lines[h + 1]]

ColumnRow(file) == ColumnRowAfter(file, HeaderLine(file.lines, 1))

NamesMatch(row) ==
    /\ ~row.none
    /\ Len(row.names) = Len(EXPECTED_FIELD_NAMES_LIST)
    /\ \A i \in 1..Len(EXPECTED_FIELD_NAMES_LIST) :
          row.names[i] = EXPECTED_FIELD_NAMES_LIST[i]

SchemaMatches(file) == NamesMatch(ColumnRow(file))

\* C3: add_vt_to_cache is never called for a row of a file whose column row
\* differs from the 15 expected names, and when the schema check fails the
\* file is rejected without a write and the loop goes on to the next file.
C3_SchemaMismatchWritesNothing ==
    [][ /\ calls' # calls => SchemaMatches(files[fileIdx])
        /\ (pc = "fieldnames" /\ ~SchemaMatches(files[fileIdx]))
              => /\ stage'[fileIdx] = "Rejected"
                 /\ calls' = calls
                 /\ kb' = kb
                 /\ exc' = ""
                 /\ fileIdx' = fileIdx + 1
                 /\ pc' = IF fileIdx < Len(files) THEN "checksum" ELSE "returned"
      ]_vars

\* a file was rejected for its column row, and a row of the file after it
\* was written
C3_Witness ==
    \E i \in 1..Len(files) :
        /\ ~SchemaMatches(files[i])
        /\ stage[i] = "Rejected"
        /\ \E j \in 1..Len(calls) :
              calls[j].run = runs /\ calls[j].file > i /\ calls[j].ok

\* a row with an empty or a missing value
Incomplete(row) ==
    \/ Len(row) < Len(EXPECTED_FIELD_NAMES_LIST)
    \/ \E i \in 1..Len(row) : row[i] = ""

\* C4: a row with an empty or missing value is skipped and nothing else:
\* it is not written, and the rows after it are taken as if it were absent.
C4_IncompleteRowOnlySkipped ==
    [][ (AtRow /\ Incomplete(CurrentRow))
            => /\ calls' = calls
               /\ kb' = kb
               /\ pc' = "rows"
               /\ fileIdx' = fileIdx
      ]_vars

\* the text is a list literal with at least one element
NonEmptyListLiteral(text) ==
    /\ literal_eval(text).exc = ""
    /\ literal_eval(text).type = "list"
    /\ literal_eval(text).items # <<>>

\* the text is a list literal
ListLiteral(text) ==
    /\ literal_eval(text).exc = ""
    /\ literal_eval(text).type = "list"

\* C5: a row whose SOURCE_PKGS is no list literal with at least one element
\* is skipped and nothing else: never written, nothing raised, the rows
\* after it still taken.
C5_BadSourcePkgsOnlySkipped ==
    [][ (AtRow /\ Len(CurrentRow) >= Col("SOURCE_PKGS")
               /\ ~NonEmptyListLiteral(CurrentRow[Col("SOURCE_PKGS")]))
            => /\ calls' = calls
               /\ kb' = kb
               /\ pc' = "rows"
               /\ fileIdx' = fileIdx
      ]_vars

\* C6: a row that passes the row check but whose CVE_LIST or XREFS is no
\* list literal is skipped and nothing else: never written, nothing raised,
\* the rows after it still taken.
C6_BadCveOrXrefsOnlySkipped ==
    [][ (AtRow /\ ~Incomplete(CurrentRow)
               /\ NonEmptyListLiteral(CurrentRow[Col("SOURCE_PKGS")])
               /\ (\/ ~ListLiteral(CurrentRow[Col("CVE_LIST")])
                   \/ ~ListLiteral(CurrentRow[Col("XREFS")])))
            => /\ calls' = calls
               /\ kb' = kb
               /\ pc' = "rows"
               /\ fileIdx' = fileIdx
      ]_vars

\* C7: when add_vt_to_cache raises OspdOpenvasError for a row, the KB keeps
\* what it holds, no later row of that file is handed to the cache in this
\* run, nothing is raised and the loop goes on to the next file.
C7_RefusedWriteEndsFileOnly ==
    [][ /\ \A i, j \in 1..Len(calls') :
              (i < j /\ calls'[i].run = calls'[j].run /\ calls'[i].file = calls'[j].file)
                  => calls'[i].ok
        /\ (Len(calls') > Len(calls) /\ ~calls'[Len(calls')].ok)
              => /\ kb' = kb
                 /\ exc' = ""
                 /\ stage'[fileIdx] = "Done"
                 /\ fileIdx' = fileIdx + 1
                 /\ pc' = IF fileIdx < Len(files) THEN "checksum" ELSE "returned"
      ]_vars

\* the cache refused a row of a file after a row of that file was written,
\* the written record is still in the KB, and a row of the next file was
\* written afterwards
C7_Witness ==
    \E i, j, k \in 1..Len(calls) :
        /\ i < j /\ j < k
        /\ calls[i].run = runs /\ calls[j].run = runs /\ calls[k].run = runs
        /\ calls[i].file = calls[j].file
        /\ calls[i].ok /\ ~calls[j].ok /\ calls[k].ok
        /\ calls[k].file = calls[j].file + 1
        /\ calls[j].line < Len(CallFile(calls[j]).lines)
        /\ calls[i].key \in DOMAIN kb

\* C8: every call of add_vt_to_cache has the key "nvt:" + OID of its row and
\* 15 fields: the file origin tag, six empty strings, the tags, the CVEs, an
\* empty string, the cross references, "3", "0", "Notus_LSC_Metadata" and
\* the TITLE of the row.
C8_RecordLayout ==
    \A i \in 1..Len(calls) :
        LET c == calls[i]
        IN  /\ c.key = "nvt:" \o CallRow(c)[Col("OID")]
            /\ Len(c.vt) = 15
            /\ c.vt[1] = "notus_metadata/" \o FileNames[c.file]
            /\ \A n \in 2..7 : c.vt[n] = ""
            /\ StartsWith(c.vt[8], "cvss_base_vector=" \o CallRow(c)[Col("CVSS_BASE_VECTOR")])
            /\ c.vt[10] = ""
            /\ StartsWith(c.vt[11], "URL:" \o CallRow(c)[Col("ADVISORY_XREF")])
            /\ c.vt[12] = "3"
            /\ c.vt[13] = "0"
            /\ c.vt[14] = "Notus_LSC_Metadata"
            /\ c.vt[15] = CallRow(c)[Col("TITLE")]

\* records of two files were written
C8_Witness ==
    \E i, j \in 1..Len(calls) :
        /\ calls[i].ok /\ calls[j].ok
        /\ calls[i].file # calls[j].file
        /\ calls[i].vt[9] = "c1, c2"

\* C9: a second run over the same files leaves the KB as the first run left
\* it, with one 15-field record under every "nvt:" key.
C9_RerunIdempotent ==
    /\ \A n \in 2..Len(kbEnd) : kbEnd[n] = kbEnd[1]
    /\ \A k \in NvtKeys(kb) : Len(kb[k]) = VtFieldCount

\* two runs have ended, and they wrote records
C9_Witness ==
    /\ Len(kbEnd) = 2
    /\ pc = "returned"
    /\ Cardinality(NvtKeys(kb)) = 2
    /\ \E i, j \in 1..Len(calls) :
          calls[i].run = 1 /\ calls[j].run = 2 /\ calls[i].ok /\ calls[j].ok

\* the last call for the OID that the cache accepted, 0 if there is none
LastWrite(oid) ==
    LET hits == {i \in 1..Len(calls) :
                    calls[i].ok /\ CallRow(calls[i])[Col("OID")] = oid}
    IN  IF hits = {} THEN 0 ELSE CHOOSE i \in hits : \A j \in hits : j <= i

WrittenOids == {CallRow(calls[i])[Col("OID")] : i \in {j \in 1..Len(calls) : calls[j].ok}}

\* C10: the KB holds one record per written OID, under "nvt:" + OID, and it
\* is the record of the last written row with that OID; there is no other
\* "nvt:" key.
C10_LastWriteWins ==
    /\ NvtKeys(kb) = {"nvt:" \o oid : oid \in WrittenOids}
    /\ \A oid \in WrittenOids : kb["nvt:" \o oid] = calls[LastWrite(oid)].vt

\* two rows with the same OID and different records were written, in one
\* file and in two files
C10_Witness ==
    /\ \E i, j \in 1..Len(calls) :
          /\ i < j /\ calls[i].ok /\ calls[j].ok
          /\ calls[i].key = calls[j].key /\ calls[i].vt # calls[j].vt
          /\ calls[i].file = calls[j].file
    /\ \E i, j \in 1..Len(calls) :
          /\ i < j /\ calls[i].ok /\ calls[j].ok
          /\ calls[i].key = calls[j].key /\ calls[i].vt # calls[j].vt
          /\ calls[i].file # calls[j].file
          /\ calls[i].run = calls[j].run

\* a row that passes the row check and whose list fields are list literals
ValidRow(row) ==
    /\ Len(row) = Len(EXPECTED_FIELD_NAMES_LIST)
    /\ ~Incomplete(row)
    /\ NonEmptyListLiteral(row[Col("SOURCE_PKGS")])
    /\ ListLiteral(row[Col("CVE_LIST")])
    /\ ListLiteral(row[Col("XREFS")])

\* the rows of the table of a file whose header line is h
RowsAfter(file, h) == {r \in 1..Len(file.lines) : h # 0 /\ r > h + 1}

TableRows(file) == RowsAfter(file, HeaderLine(file.lines, 1))

\* the current run has called the cache for the row at line r of file i,
\* and the cache took the record
WrittenInRun(i, r) ==
    \E n \in 1..Len(calls) :
        /\ calls[n].run = runs
        /\ calls[n].file = i
        /\ calls[n].line = r
        /\ calls[n].ok

\* C11: with signature verification disabled no file is rejected by the
\* checksum check, whether the trust store holds its digest, another digest
\* or none: a file is rejected only for its column row, and a file without
\* a matching stored digest that is done has had its valid rows written.
C11_DisabledCheckAcceptsEveryFile ==
    noSignatureCheck =>
        \A i \in 1..Len(files) :
            /\ stage[i] = "Rejected" => ~SchemaMatches(files[i])
            /\ (stage[i] = "Done" /\ ~Trusted(files[i]))
                  => \A r \in TableRows(files[i]) :
                        ValidRow(files[i].lines[r]) => WrittenInRun(i, r)

\* with verification disabled, a run has written the rows of a file whose
\* stored digest differs and of a file without a stored digest
C11_Witness ==
    /\ noSignatureCheck
    /\ pc = "returned"
    /\ \E i, j \in 1..Len(files) :
          /\ TrustKey(files[i]) \in DOMAIN kb
          /\ kb[TrustKey(files[i])] # <<files[i].sha>>
          /\ TrustKey(files[j]) \notin DOMAIN kb
          /\ stage[i] = "Done" /\ stage[j] = "Done"
          /\ \E r \in TableRows(files[i]) : WrittenInRun(i, r)
          /\ \E r \in TableRows(files[j]) : WrittenInRun(j, r)

\* the file has no line that begins with "{"
NoHeaderLine(file) == HeaderLine(file.lines, 1) = 0

\* a line of the file holds the 15 expected column names
HasColumnRow(file) ==
    \E r \in 1..Len(file.lines) : NamesMatch([none |-> FALSE, names |-> file.lines[r]])

\* C12: a checksum-accepted file without a header line still has its table
\* decoded: its column row is read and checked, so a file that holds the
\* expected column row is not rejected, and nothing is raised.
C12_NoHeaderTableStillDecoded ==
    /\ \A i \in 1..Len(files) :
          (NoHeaderLine(files[i]) /\ HasColumnRow(files[i])
              /\ is_checksum_correct(noSignatureCheck, kb, files[i]))
             => stage[i] # "Rejected"
    /\ (fileIdx \in 1..Len(files) /\ NoHeaderLine(files[fileIdx])) => pc # "raised"

\* C13: when the KB cannot be reached while the handler is constructed,
\* __init__ raises and nothing is processed: update_metadata never runs, no
\* file leaves Discovered, add_vt_to_cache is never called and the KB holds
\* no "nvt:" key.
C13_NoProcessingWithoutConnection ==
    (~reachable /\ pc # "new") =>
        /\ pc = "failed"
        /\ exc # ""
        /\ runs = 0
        /\ calls = <<>>
        /\ \A i \in 1..Len(files) : stage[i] = "Discovered"
        /\ NvtKeys(kb) = {}

\* construction has failed with files in the directory that verification
\* would accept
C13_Witness ==
    /\ ~reachable
    /\ pc = "failed"
    /\ Len(files) = MaxFiles
    /\ \A i \in 1..Len(files) :
          is_checksum_correct(noSignatureCheck, kb, files[i]) /\ SchemaMatches(files[i])

\* the header of the file as update_metadata decodes it: the evaluated
\* first line that begins with "{", the empty dict when there is none
HeaderOfAt(file, h) ==
    IF h = 0 THEN EmptyDict ELSE literal_eval(LineText(file.lines[h]))

HeaderOf(file) == HeaderOfAt(file, HeaderLine(file.lines, 1))

HeaderValue(file, key) == Subscript(HeaderOf(file), key).s

\* the ten pairs of the tag string of a row under a header, in their order
TagPairsUnder(header, row) ==
    << "cvss_base_vector=" \o row[Col("CVSS_BASE_VECTOR")],
       "last_modification=" \o row[Col("LAST_MODIFICATION")],
       "creation_date=" \o row[Col("CREATION_DATE")],
       "summary=" \o row[Col("DESCRIPTION")],
       "vuldetect=" \o Subscript(header, "VULDETECT").s,
       "insight=" \o row[Col("INSIGHT")],
       "affected=" \o row[Col("AFFECTED")],
       "solution=" \o Subscript(header, "SOLUTION").s,
       "solution_type=" \o Subscript(header, "SOLUTION_TYPE").s,
       "qod_type=" \o Subscript(header, "QOD_TYPE").s >>

TagPairs(file, row) == TagPairsUnder(HeaderOf(file), row)

\* the call of add_vt_to_cache made last: calls grows by one call at a time,
\* so every call is the last one in the state its step leads to
LastCall == calls[Len(calls)]

\* C14: field 8 of every record handed to the cache is the ten key=value
\* pairs joined by "|" in the fixed order, the row values taken from the row
\* of the call and the header values from the header line of its file.
C14_TagString ==
    calls # <<>> =>
        LastCall.vt[8] = JoinStr("|", TagPairs(CallFile(LastCall), CallRow(LastCall)))

\* records of files with different headers were written, and one of them has
\* the tag string spelled out here
C14_Witness ==
    \E i, j \in 1..Len(calls) :
        /\ calls[i].ok /\ calls[j].ok
        /\ HeaderValue(CallFile(calls[i]), "SOLUTION")
              # HeaderValue(CallFile(calls[j]), "SOLUTION")
        /\ calls[i].vt[8] =
              "cvss_base_vector=AV:N|last_modification=2021|creation_date=2020|"
                 \o "summary=desc|vuldetect=vd1|insight=ins|affected=aff|"
                 \o "solution=so1|solution_type=st1|qod_type=qt1"

\* the entries of the cross-reference string for the primary reference a and
\* the URLs of the evaluated list: "URL:" + a, then "URL:" + u for every u
XrefEntries(a, xrefs) ==
    [i \in 1..(Len(xrefs.items) + 1) |->
        IF i = 1 THEN "URL:" \o a ELSE "URL:" \o xrefs.items[i - 1].s]

\* C15: field 11 of a record handed to the cache, for a row whose XREFS is
\* a list literal of n URLs, is the n + 1 entries "URL:" + ADVISORY_XREF and
\* "URL:" + URL, in the order of the list, joined by ", ".
C15_XrefsString ==
    (calls # <<>> /\ ListLiteral(CallRow(LastCall)[Col("XREFS")])) =>
        LastCall.vt[11] =
            JoinStr(", ", XrefEntries(CallRow(LastCall)[Col("ADVISORY_XREF")],
                                      literal_eval(CallRow(LastCall)[Col("XREFS")])))

\* rows with no, one and two cross references were written
C15_Witness ==
    /\ \E i \in 1..Len(calls) : calls[i].ok /\ calls[i].vt[11] = "URL:x.org"
    /\ \E i \in 1..Len(calls) : calls[i].ok /\ calls[i].vt[11] = "URL:y.org, URL:u3"
    /\ \E i \in 1..Len(calls) : calls[i].ok /\ calls[i].vt[11] = "URL:x.org, URL:u1, URL:u2"

\* the checksum check lets the file pass
Accepted(file) == noSignatureCheck \/ Trusted(file)

\* the moves of a file from one stage to the next
StageMoves ==
    { <<"Discovered", "ChecksumVerified">>, <<"Discovered", "Rejected">>,
      <<"ChecksumVerified", "SchemaVerified">>, <<"ChecksumVerified", "Rejected">>,
      <<"SchemaVerified", "RowProcessing">>, <<"SchemaVerified", "Done">>,
      <<"RowProcessing", "Done">> }

\* the content of the file at hand is being read
Reading == pc \in {"header", "fieldnames", "rows"}

\* C16: within a run a file only moves forward through Discovered,
\* ChecksumVerified, SchemaVerified, RowProcessing, Done; it is rejected only
\* from Discovered, by the checksum check, or from ChecksumVerified, by the
\* schema check, and then stays rejected; its content is read only after
\* the checksum check has passed, and a row is checked or written only
\* after the schema check has passed as well.
C16_StagesOnlyForward ==
    [][ /\ runs' = runs =>
              \A i \in 1..Len(files) :
                  /\ stage'[i] # stage[i] => <<stage[i], stage'[i]>> \in StageMoves
                  /\ (stage[i] = "Discovered" /\ stage'[i] = "Rejected")
                        => ~Accepted(files[i])
                  /\ (stage[i] = "ChecksumVerified" /\ stage'[i] = "Rejected")
                        => ~SchemaMatches(files[i])
        /\ Reading' =>
              /\ Accepted(files[fileIdx'])
              /\ stage'[fileIdx'] \in {"ChecksumVerified", "SchemaVerified", "RowProcessing"}
        /\ (pc' = "rows" \/ calls' # calls) =>
              /\ Accepted(files[fileIdx])
              /\ SchemaMatches(files[fileIdx])
              /\ stage[fileIdx] \in {"ChecksumVerified", "SchemaVerified", "RowProcessing"}
              /\ stage'[fileIdx] \in {"SchemaVerified", "RowProcessing", "Done"}
      ]_vars

\* a run has rejected a file at the schema check after its checksum check
\* passed, and has taken another file through its rows to Done
C16_Witness ==
    /\ pc = "returned"
    /\ ~noSignatureCheck
    /\ \E i, j \in 1..Len(files) :
          /\ stage[i] = "Rejected" /\ Trusted(files[i]) /\ ~SchemaMatches(files[i])
          /\ stage[j] = "Done" /\ \E r \in TableRows(files[j]) : WrittenInRun(j, r)

\* the lines of the file that begin with "{"
BraceLines(file) ==
    {r \in 1..Len(file.lines) :
        file.lines[r] # <<>> /\ Char(file.lines[r][1], 1) = "{"}

\* the first of them, 0 if there is none
FirstBraceLine(file) ==
    IF BraceLines(file) = {} THEN 0
    ELSE CHOOSE r \in BraceLines(file) : \A q \in BraceLines(file) : r <= q

\* what the scan has to leave behind for a file whose first line beginning
\* with "{" is h: that line evaluated as the header, the line after it as
\* the column row, and only lines after that as rows
ScannedUpTo(file, h) ==
    /\ h # 0 => general_metadata_dict = literal_eval(LineText(file.lines[h]))
    /\ h = 0 => general_metadata_dict = EmptyDict
    /\ pc = "fieldnames" => linePos = IF h = 0 THEN Len(file.lines) + 1 ELSE h + 1
    /\ pc = "rows" =>
          /\ h # 0 /\ h < Len(file.lines)
          /\ fieldnames = [none |-> FALSE, names |-> file.lines[h + 1]]
          /\ linePos > h + 1

\* C17: the header scan stops at the first line that begins with "{": that
\* line is the header, the lines before it are dropped, the line after it is
\* the column row, and a later line that begins with "{" is a row of the
\* table and leaves the header as it is.
C17_ScanStopsAtFirstHeader ==
    /\ pc \in {"fieldnames", "rows"} =>
          ScannedUpTo(files[fileIdx], FirstBraceLine(files[fileIdx]))
    /\ calls # <<>> => LastCall.line > FirstBraceLine(CallFile(LastCall)) + 1

\* a file with a line before its header and a second line that begins with
\* "{" in its table: the row after that second line was written under the
\* header of the first
C17_Witness ==
    \E i \in 1..Len(calls) :
        /\ calls[i].ok
        /\ FirstBraceLine(CallFile(calls[i])) > 1
        /\ \E r \in BraceLines(CallFile(calls[i])) :
              r > FirstBraceLine(CallFile(calls[i])) /\ r < calls[i].line
        /\ calls[i].vt[8] =
              JoinStr("|", TagPairsUnder(
                  literal_eval(LineText(
                      CallFile(calls[i]).lines[FirstBraceLine(CallFile(calls[i]))])),
                  CallRow(calls[i])))

\* the header line of the file evaluated, the empty dict when the file has
\* no header line or the line does not evaluate
OwnHeaderAt(file, h) ==
    IF h = 0 THEN EmptyDict
    ELSE IF literal_eval(LineText(file.lines[h])).exc # "" THEN EmptyDict
    ELSE literal_eval(LineText(file.lines[h]))

OwnHeader(file) == OwnHeaderAt(file, FirstBraceLine(file))

\* C18: general_metadata_dict belongs to the file at hand: the header scan
\* sets it to the file's own header, or to the empty dict, whatever the file
\* before left in it; no other step changes it, so it is the same for all
\* rows of the file; and a record is built under the header of its own file.
C18_HeaderScopedToFile ==
    [][ /\ pc = "header" => general_metadata_dict' = OwnHeader(files[fileIdx])
        /\ pc # "header" => general_metadata_dict' = general_metadata_dict
        /\ calls' # calls => general_metadata_dict = OwnHeader(files[fileIdx])
      ]_vars

\* one run has written a record of a file and then a record of the next
\* file, whose header is another one, each with the solution of its file
C18_Witness ==
    \E i, j \in 1..Len(calls) :
        /\ calls[i].run = calls[j].run
        /\ calls[i].ok /\ calls[j].ok
        /\ calls[i].file + 1 = calls[j].file
        /\ OwnHeader(CallFile(calls[i])) # OwnHeader(CallFile(calls[j]))
        /\ calls[i].vt[8] # calls[j].vt[8]
        /\ calls[j].vt[8] = JoinStr("|", TagPairsUnder(OwnHeader(CallFile(calls[j])),
                                                       CallRow(calls[j])))

\* the keys under which the two KBs differ
ChangedKeys(before, after) ==
    {k \in DOMAIN before \cup DOMAIN after :
        \/ k \notin DOMAIN before
        \/ k \notin DOMAIN after
        \/ before[k] # after[k]}

\* the row of the call passed the row check
CallRowChecked(c) ==
    /\ _check_advisory_dict(DictRow(EXPECTED_FIELD_NAMES_LIST, CallRow(c))).exc = ""
    /\ _check_advisory_dict(DictRow(EXPECTED_FIELD_NAMES_LIST, CallRow(c))).ok

\* C19: a step of update_metadata changes the KB under one key at most,
\* "nvt:" + OID of a row that passed the row check in a file that passed
\* the checksum and the schema check, by a call the cache accepted; no key
\* is deleted, the trust store entries stay as they are, and the trust store
\* is read at most once per file in a run.
C19_OnlyWrittenKeysChange ==
    [][ /\ DOMAIN kb \subseteq DOMAIN kb'
        /\ ChangedKeys(kb, kb') # {} =>
              /\ Len(calls') = Len(calls) + 1
              /\ calls'[Len(calls')].ok
              /\ ChangedKeys(kb, kb')
                    = {"nvt:" \o CallRow(calls'[Len(calls')])[Col("OID")]}
              /\ CallRowChecked(calls'[Len(calls')])
              /\ Accepted(files[fileIdx])
              /\ SchemaMatches(files[fileIdx])
        /\ \A i \in 1..Len(files) :
              /\ trustReads'[i] <= 1
              /\ TrustKey(files[i]) \in DOMAIN kb =>
                    kb'[TrustKey(files[i])] = kb[TrustKey(files[i])]
      ]_vars

\* a run has read the trust store for two files, has written a row of one
\* of them and skipped a row of it, and the trust store holds what it held
C19_Witness ==
    /\ pc = "returned"
    /\ Len(files) = 2
    /\ \A i \in 1..Len(files) : trustReads[i] = 1 /\ TrustKey(files[i]) \in DOMAIN kb
    /\ \E i \in 1..Len(files) :
          /\ Trusted(files[i])
          /\ \E r \in TableRows(files[i]) : WrittenInRun(i, r)
          /\ \E r \in TableRows(files[i]) :
                files[i].lines[r] # <<>> /\ Incomplete(files[i].lines[r])
                    /\ ~WrittenInRun(i, r)
    /\ \E i \in 1..Len(files) : ~Trusted(files[i])

====
